---- MODULE Spec2Model ----
(***************************************************************************)
(* Highlights & Comments Sidebar (src/main.ts, lines 1-873).               *)
(*                                                                         *)
(* Text is a sequence of one-character strings.  A JavaScript value held   *)
(* in a settings field is written as a string: "true" and "false" are the  *)
(* booleans, "null" is null, "" is the empty string, every other string    *)
(* is that string.  fontSize is an integer.  An absent key of an object is *)
(* a key outside the DOMAIN of the function that models the object.        *)
(***************************************************************************)
EXTENDS Integers, Sequences, FiniteSets, TLC

\* ---------------------------------------------------------------- bounds

\* How many leaf keys a persisted blob of the load specifications holds.
MaxBlobKeys == 1

\* ------------------------------------------------------- types, constants

ItemTypes == <<"highlight", "comment", "footnote">>

ItemType == {ItemTypes[i] : i \in 1..Len(ItemTypes)}

SORT_CYCLE == <<"line-asc", "line-desc", "a-z", "z-a">>

SortOrder == {SORT_CYCLE[i] : i \in 1..Len(SORT_CYCLE)}

DefaultFontSize == 13

SliderMin == 10

SliderMax == 24

DEFAULT_SETTINGS ==
    [ fontSize          |-> DefaultFontSize,
      showHighlights    |-> "true",
      showComments      |-> "true",
      showFootnotes     |-> "true",
      defaultSort       |-> "line-asc",
      sectionsCollapsed |-> [highlight |-> "false", comment |-> "false",
                             footnote |-> "false"],
      sectionSorts      |-> [highlight |-> "line-asc", comment |-> "line-asc",
                             footnote |-> "line-asc"] ]

\* ------------------------------------------------------ JavaScript values

\* ToBoolean of a value held in a settings field.
Truthy(v) == v \notin {"false", "null", ""}

\* The ! operator: always a boolean.
Not(v) == IF Truthy(v) THEN "false" ELSE "true"

\* a || b
OrElse(a, b) == IF Truthy(a) THEN a ELSE b

\* a ?? b on a value that is present: only null (and undefined) are replaced.
Coalesce(a, b) == IF a = "null" THEN b ELSE a

IsBoolean(v) == v \in {"true", "false"}

NoObject == [k \in {} |-> "null"]

\* Object.assign({}, target, source): the keys of both, source winning.
ObjectAssign(target, source) ==
    [k \in (DOMAIN target) \cup (DOMAIN source) |->
        IF k \in DOMAIN source THEN source[k] ELSE target[k]]

\* data?.key : the nested object, or nothing to merge when the key is absent.
Nested(data, key) == IF key \in DOMAIN data THEN data[key] ELSE NoObject

\* ------------------------------------------------------------------- text

UpperCase == <<"A","B","C","D","E","F","G","H","I","J","K","L","M",
               "N","O","P","Q","R","S","T","U","V","W","X","Y","Z">>

LowerCase == <<"a","b","c","d","e","f","g","h","i","j","k","l","m",
               "n","o","p","q","r","s","t","u","v","w","x","y","z">>

LowerChar(c) ==
    IF \E i \in 1..Len(UpperCase) : UpperCase[i] = c
    THEN LowerCase[CHOOSE i \in 1..Len(UpperCase) : UpperCase[i] = c]
    ELSE c

\* String.prototype.toLowerCase
toLowerCase(s) == [i \in 1..Len(s) |-> LowerChar(s[i])]

WhiteSpace == {" ", "\t", "\r"}

\* The characters the regular expression dot does not match.
LineTerminator == {"\n", "\r"}

RECURSIVE TrimStart(_)
TrimStart(s) ==
    IF s # <<>> /\ Head(s) \in WhiteSpace THEN TrimStart(Tail(s)) ELSE s

RECURSIVE TrimEnd(_)
TrimEnd(s) ==
    IF s # <<>> /\ s[Len(s)] \in WhiteSpace
    THEN TrimEnd(SubSeq(s, 1, Len(s) - 1))
    ELSE s

\* String.prototype.trim
trim(s) == TrimEnd(TrimStart(s))

\* Whether pat occurs in s at the 1-based position i.
OccursAt(s, pat, i) ==
    /\ i >= 1
    /\ i + Len(pat) - 1 <= Len(s)
    /\ \A k \in 1..Len(pat) : s[i + k - 1] = pat[k]

\* The least position >= from where pat occurs in s, or 0.
IndexOfFrom(s, pat, from) ==
    LET hits == {i \in from..(Len(s) - Len(pat) + 1) : OccursAt(s, pat, i)}
    IN  IF hits = {} THEN 0
        ELSE CHOOSE i \in hits : \A j \in hits : i <= j

\* String.prototype.includes
includes(s, pat) == IndexOfFrom(s, pat, 1) # 0

\* content.split("\n")
RECURSIVE split(_)
split(content) ==
    LET nl == IndexOfFrom(content, <<"\n">>, 1)
    IN  IF nl = 0 THEN <<content>>
        ELSE <<SubSeq(content, 1, nl - 1)>>
             \o split(SubSeq(content, nl + 1, Len(content)))

\* ----------------------------------------------------------------- parser

\* A scan that resumes at the closing delimiter of a match, so that it
\* opens the next one.
RECURSIVE matchAllDelimitedOverlapping(_, _, _, _, _)
matchAllDelimitedOverlapping(line, hay, open, close, from) ==
    LET i == IndexOfFrom(hay, open, from)
        j == IndexOfFrom(hay, close, i + Len(open))
        inner == SubSeq(line, i + Len(open), j - 1)
    IN  IF i = 0 \/ j = 0 THEN <<>>
        ELSE IF \E k \in 1..Len(inner) : inner[k] \in LineTerminator
        THEN matchAllDelimitedOverlapping(line, hay, open, close, i + 1)
        ELSE <<[index |-> i - 1, group |-> inner,
                length |-> j + Len(close) - i]>>
             \o matchAllDelimitedOverlapping(line, hay, open, close, j)

\* line.matchAll(/open(.*?)close/g) read on hay (the line, or the line in lower
\* case for a pattern with the i flag): the matches from position `from` on,
\* left to right, each ending at the first closing delimiter after its opening
\* one.  The dot matches no line terminator, so an opening delimiter whose
\* first closing delimiter lies behind one does not match and the scan goes on
\* one character further.
RECURSIVE matchAllDelimited(_, _, _, _, _)
matchAllDelimited(line, hay, open, close, from) ==
    LET i == IndexOfFrom(hay, open, from)
        j == IndexOfFrom(hay, close, i + Len(open))
        inner == SubSeq(line, i + Len(open), j - 1)
    IN  IF i = 0 \/ j = 0 THEN <<>>
        ELSE IF \E k \in 1..Len(inner) : inner[k] \in LineTerminator
        THEN matchAllDelimited(line, hay, open, close, i + 1)
        ELSE <<[index |-> i - 1, group |-> inner,
                length |-> j + Len(close) - i]>>
             \o matchAllDelimited(line, hay, open, close, j + Len(close))

\* The first position >= from of s whose character is not in cs, or Len(s) + 1.
SkipWhile(s, cs, from) ==
    LET rest == {p \in from..Len(s) : s[p] \notin cs}
    IN  IF rest = {} THEN Len(s) + 1
        ELSE CHOOSE p \in rest : \A q \in rest : p <= q

\* The first position >= from of s whose character is in cs, or Len(s) + 1.
SkipUntil(s, cs, from) ==
    LET rest == {p \in from..Len(s) : s[p] \in cs}
    IN  IF rest = {} THEN Len(s) + 1
        ELSE CHOOSE p \in rest : \A q \in rest : p <= q

\* line.matchAll(/\[\^([^\]]+)\]:\s*(.*)/g)
RECURSIVE matchAllFootnote(_, _)
matchAllFootnote(line, from) ==
    LET i == IndexOfFrom(line, <<"[", "^">>, from)
        k == IndexOfFrom(line, <<"]">>, i + 2)
        w == SkipWhile(line, WhiteSpace, k + 2)
        e == SkipUntil(line, LineTerminator, w) - 1
    IN  IF i = 0 \/ k = 0 THEN <<>>
        ELSE IF k = i + 2 \/ ~OccursAt(line, <<":">>, k + 1)
        THEN matchAllFootnote(line, i + 1)
        ELSE <<[index |-> i - 1,
                group |-> <<"[", "^">> \o SubSeq(line, i + 2, k - 1)
                          \o <<"]", ":", " ">> \o SubSeq(line, w, e),
                length |-> e - i + 1]>>
             \o matchAllFootnote(line, e + 1)

\* Items whose matchLength is the length of the captured group alone.
ItemsOfGroupLength(type, ms, lineIdx, trimmed) ==
    [n \in 1..Len(ms) |->
        [type        |-> type,
         text        |-> IF trimmed THEN trim(ms[n].group) ELSE ms[n].group,
         line        |-> lineIdx,
         ch          |-> ms[n].index,
         matchLength |-> Len(ms[n].group)]]

\* The items pushed for the matches ms of one pattern on line lineIdx.
Items(type, ms, lineIdx, trimmed) ==
    [n \in 1..Len(ms) |->
        [type        |-> type,
         text        |-> IF trimmed THEN trim(ms[n].group) ELSE ms[n].group,
         line        |-> lineIdx,
         ch          |-> ms[n].index,
         matchLength |-> ms[n].length]]

\* The body of the loop of parseContent for one line.
parseLine(line, lineIdx) ==
    Items("highlight",
          matchAllDelimited(line, line, <<"=", "=">>, <<"=", "=">>, 1),
          lineIdx, FALSE)
    \o Items("highlight",
          matchAllDelimited(line, toLowerCase(line),
                            <<"<", "m", "a", "r", "k", ">">>,
                            <<"<", "/", "m", "a", "r", "k", ">">>, 1),
          lineIdx, FALSE)
    \o Items("comment",
          matchAllDelimited(line, line, <<"%", "%">>, <<"%", "%">>, 1),
          lineIdx, TRUE)
    \o Items("comment",
          matchAllDelimited(line, line, <<"<", "!", "-", "-">>,
                            <<"-", "-", ">">>, 1),
          lineIdx, TRUE)
    \o Items("footnote", matchAllFootnote(line, 1), lineIdx, FALSE)

\* A loop that puts the records of the later lines first.
RECURSIVE parseLinesBottomUp(_, _)
parseLinesBottomUp(lines, lineIdx) ==
    IF lineIdx >= Len(lines) THEN <<>>
    ELSE parseLinesBottomUp(lines, lineIdx + 1)
         \o parseLine(lines[lineIdx + 1], lineIdx)

RECURSIVE parseLines(_, _)
parseLines(lines, lineIdx) ==
    IF lineIdx >= Len(lines) THEN <<>>
    ELSE parseLine(lines[lineIdx + 1], lineIdx) \o parseLines(lines, lineIdx + 1)

parseContent(content) == parseLines(split(content), 0)

\* ------------------------------------------------------------------- sort

\* The primary collation order of the characters of the model's documents:
\* white space, punctuation, symbols, digits, letters (case is ignored at
\* sensitivity "base").
Collation == <<" ", "_", "-", ",", ";", ":", "!", "?", ".", "(", ")", "[", "]",
               "@", "*", "/", "&", "#", "%", "^", "+", "<", "=", ">",
               "0", "1", "2", "3", "4", "5", "6", "7", "8", "9">> \o LowerCase

CollationRank(c) ==
    LET f == LowerChar(c)
    IN  IF \E i \in 1..Len(Collation) : Collation[i] = f
        THEN CHOOSE i \in 1..Len(Collation) : Collation[i] = f
        ELSE Len(Collation) + 1

\* a.localeCompare(b, undefined, {sensitivity: "base"}): negative, 0, positive.
RECURSIVE localeCompare(_, _)
localeCompare(a, b) ==
    IF a = <<>> /\ b = <<>> THEN 0
    ELSE IF a = <<>> THEN -1
    ELSE IF b = <<>> THEN 1
    ELSE IF CollationRank(Head(a)) # CollationRank(Head(b))
    THEN CollationRank(Head(a)) - CollationRank(Head(b))
    ELSE localeCompare(Tail(a), Tail(b))

\* The comparator sortItems hands to Array.prototype.sort for each order.
compare(order, a, b) ==
    CASE order = "line-asc" ->
            IF a.line - b.line # 0 THEN a.line - b.line ELSE a.ch - b.ch
      [] order = "line-desc" ->
            IF b.line - a.line # 0 THEN b.line - a.line ELSE b.ch - a.ch
      [] order = "a-z" -> localeCompare(a.text, b.text)
      [] order = "z-a" -> localeCompare(b.text, a.text)
      [] OTHER -> 0

\* A sort that is not stable: x goes before the elements equal to it.
RECURSIVE insertSortedBeforeEqual(_, _, _)
insertSortedBeforeEqual(sorted, x, order) ==
    IF sorted = <<>> THEN <<x>>
    ELSE IF compare(order, Head(sorted), x) < 0
    THEN <<Head(sorted)>> \o insertSortedBeforeEqual(Tail(sorted), x, order)
    ELSE <<x>> \o sorted

\* Array.prototype.sort is stable: x goes behind every element not after it.
RECURSIVE insertSorted(_, _, _)
insertSorted(sorted, x, order) ==
    IF sorted = <<>> THEN <<x>>
    ELSE IF compare(order, Head(sorted), x) <= 0
    THEN <<Head(sorted)>> \o insertSorted(Tail(sorted), x, order)
    ELSE <<x>> \o sorted

RECURSIVE stableSort(_, _)
stableSort(items, order) ==
    IF items = <<>> THEN <<>>
    ELSE insertSorted(stableSort(SubSeq(items, 1, Len(items) - 1), order),
                      items[Len(items)], order)

\* sortItems: a sorted copy; an order outside the four is the default branch,
\* the copy as it is.
sortItems(items, order) ==
    IF order \in SortOrder THEN stableSort(items, order) ELSE items

\* ----------------------------------------------------------------- filter

\* A filter that puts the texts in lower case and keeps them so.
filterItemsLowered(allItems, searchQuery) ==
    LET query == trim(toLowerCase(searchQuery))
        lowered == [n \in 1..Len(allItems) |->
                      [allItems[n] EXCEPT !.text = toLowerCase(@)]]
        Keep(item) == includes(item.text, query)
    IN  IF Len(query) > 0 THEN SelectSeq(lowered, Keep) ELSE allItems

\* A filter that compares the texts as they are.
filterItemsCaseSensitive(allItems, searchQuery) ==
    LET query == trim(toLowerCase(searchQuery))
        Keep(item) == includes(item.text, query)
    IN  IF Len(query) > 0 THEN SelectSeq(allItems, Keep) ELSE allItems

\* The filter at the head of renderSections.
filterItems(allItems, searchQuery) ==
    LET query == trim(toLowerCase(searchQuery))
        Keep(item) == includes(toLowerCase(item.text), query)
    IN  IF Len(query) > 0 THEN SelectSeq(allItems, Keep) ELSE allItems

\* ------------------------------------------------------------- rendering

\* isSectionVisible: the value of the category's show field.
isSectionVisible(s, type) ==
    CASE type = "highlight" -> s.showHighlights
      [] type = "comment"   -> s.showComments
      [] type = "footnote"  -> s.showFootnotes

\* The sort order renderSections and showSortMenu use for a category.
sectionSortOrder(s, type) == OrElse(s.sectionSorts[type], s.defaultSort)

NoAnnotationsText == "No highlights, comments, or footnotes found."

NoMatchText == "No matching items."

NoDocumentText == "Open a note to see its highlights, comments, and footnotes."

\* The section renderSections builds for one category from its group.
Section(s, type, groupItems) ==
    [ type      |-> type,
      count     |-> Len(groupItems),
      sortOrder |-> sectionSortOrder(s, type),
      collapsed |-> Truthy(Coalesce(s.sectionsCollapsed[type], "false")),
      rows      |-> sortItems(groupItems, sectionSortOrder(s, type)) ]

\* The loop without its visibility test.
RECURSIVE sectionLoopOfAll(_, _, _)
sectionLoopOfAll(s, filteredItems, n) ==
    IF n > Len(ItemTypes) THEN <<>>
    ELSE LET type == ItemTypes[n]
             InGroup(item) == item.type = type
             groupItems == SelectSeq(filteredItems, InGroup)
         IN  IF Len(groupItems) = 0
             THEN sectionLoopOfAll(s, filteredItems, n + 1)
             ELSE <<Section(s, type, groupItems)>>
                  \o sectionLoopOfAll(s, filteredItems, n + 1)

\* The loop of renderSections over sectionMeta, from category number n on.
RECURSIVE sectionLoop(_, _, _)
sectionLoop(s, filteredItems, n) ==
    IF n > Len(ItemTypes) THEN <<>>
    ELSE LET type == ItemTypes[n]
             InGroup(item) == item.type = type
             groupItems == SelectSeq(filteredItems, InGroup)
         IN  IF ~Truthy(isSectionVisible(s, type)) \/ Len(groupItems) = 0
             THEN sectionLoop(s, filteredItems, n + 1)
             ELSE <<Section(s, type, groupItems)>>
                  \o sectionLoop(s, filteredItems, n + 1)

\* renderSections grouping the unfiltered items.
renderSectionsOfAll(allItems, searchQuery, s) ==
    LET query == trim(toLowerCase(searchQuery))
        filteredItems == filterItems(allItems, searchQuery)
    IN  IF Len(filteredItems) = 0 /\ Len(allItems) = 0
        THEN [message |-> NoAnnotationsText, sections |-> <<>>]
        ELSE IF Len(filteredItems) = 0 /\ Len(query) > 0
        THEN [message |-> NoMatchText, sections |-> <<>>]
        ELSE [message |-> "", sections |-> sectionLoop(s, allItems, 1)]

\* renderSections: what the sections container holds afterwards.
renderSections(allItems, searchQuery, s) ==
    LET query == trim(toLowerCase(searchQuery))
        filteredItems == filterItems(allItems, searchQuery)
    IN  IF Len(filteredItems) = 0 /\ Len(allItems) = 0
        THEN [message |-> NoAnnotationsText, sections |-> <<>>]
        ELSE IF Len(filteredItems) = 0 /\ Len(query) > 0
        THEN [message |-> NoMatchText, sections |-> <<>>]
        ELSE [message |-> "", sections |-> sectionLoop(s, filteredItems, 1)]

\* The documents an editor of the model holds; activeDoc = 0 is no active
\* Markdown view.
Docs ==
    << << >>,
       <<"=", "=", "A", "b", "=", "=">>,
       <<"<", "m", "a", "r", "k", ">", "a", "<", "/", "m", "a", "r", "k", ">",
         " ", "=", "=", "b", "=", "=", "\n",
         "%", "%", " ", "A", " ", "c", " ", "%", "%", "\n",
         "[", "^", "1", "]", ":", " ", "b">> >>

DocIds == 0..Len(Docs)

\* What the search box can hold.
Queries ==
    { << >>, <<"a">>, <<"B", " ">>, <<"z">>, <<" ">> }

\* activeView.editor.getValue() followed by parseContent, per document.
ParsedDocs == [d \in 1..Len(Docs) |-> parseContent(Docs[d])]

\* The content element of a view that is not open.
NoPlan ==
    [ fontSize |-> 0, message |-> "", controls |-> FALSE, clearBtn |-> FALSE,
      sections |-> <<>> ]

\* renderContent: the content element and the item list its handlers capture.
\* controls: the search box and the toggle bar exist; clearBtn: the clear
\* button exists.
renderContent(s, doc, searchQuery) ==
    IF doc = 0
    THEN [ plan |-> [ fontSize |-> s.fontSize, message |-> NoDocumentText,
                      controls |-> FALSE, clearBtn |-> FALSE,
                      sections |-> <<>> ],
           allItems |-> <<>> ]
    ELSE LET rs == renderSections(ParsedDocs[doc], searchQuery, s)
         IN  [ plan |-> [ fontSize |-> s.fontSize, message |-> rs.message,
                          controls |-> TRUE,
                          clearBtn |-> Len(searchQuery) > 0,
                          sections |-> rs.sections ],
               allItems |-> ParsedDocs[doc] ]

\* Whether the plan holds a section for the category.
HasSection(p, type) == \E n \in 1..Len(p.sections) : p.sections[n].type = type

SectionOf(p, type) ==
    p.sections[CHOOSE n \in 1..Len(p.sections) : p.sections[n].type = type]

\* --------------------------------------------------------------- settings

\* loadSettings: the shallow merge over the defaults, then the merge of the
\* two nested objects one level down.
loadSettings(data) ==
    [ ObjectAssign(DEFAULT_SETTINGS, data) EXCEPT
        !.sectionsCollapsed =
            ObjectAssign(DEFAULT_SETTINGS.sectionsCollapsed,
                         Nested(data, "sectionsCollapsed")),
        !.sectionSorts =
            ObjectAssign(DEFAULT_SETTINGS.sectionSorts,
                         Nested(data, "sectionSorts")) ]

\* toggleSectionVisibility, on the settings.
toggleSectionVisibility(s, type) ==
    CASE type = "highlight" ->
            [s EXCEPT !.showHighlights = Not(s.showHighlights)]
      [] type = "comment" ->
            [s EXCEPT !.showComments = Not(s.showComments)]
      [] type = "footnote" ->
            [s EXCEPT !.showFootnotes = Not(s.showFootnotes)]

\* The settings after the "Show all sections" menu item.
showAllSections(s) ==
    [s EXCEPT !.showHighlights = "true", !.showComments = "true",
              !.showFootnotes = "true"]

\* The settings after the onChange of one of the three settings-tab toggles.
setShow(s, type, value) ==
    CASE type = "highlight" -> [s EXCEPT !.showHighlights = value]
      [] type = "comment"   -> [s EXCEPT !.showComments = value]
      [] type = "footnote"  -> [s EXCEPT !.showFootnotes = value]

\* The settings after a click on a section header.
toggleCollapsed(s, type) ==
    [s EXCEPT !.sectionsCollapsed[type] = Not(s.sectionsCollapsed[type])]

\* A sort menu item that sets the order of every category.
setSectionSortOfAll(s, type, order) ==
    [s EXCEPT !.sectionSorts = [c \in ItemType |-> order]]

\* The settings after the onClick of a sort menu item.
setSectionSort(s, type, order) == [s EXCEPT !.sectionSorts[type] = order]

\* A default sort dropdown that leaves the per-section orders alone.
setDefaultSortOnly(s, newSort) == [s EXCEPT !.defaultSort = newSort]

\* The settings after the onChange of the default sort dropdown.
setDefaultSort(s, newSort) ==
    [s EXCEPT !.defaultSort = newSort,
              !.sectionSorts = [highlight |-> newSort, comment |-> newSort,
                                footnote |-> newSort]]

\* The settings after the onChange of the font size slider.
setFontSize(s, value) == [s EXCEPT !.fontSize = value]

Min(a, b) == IF a <= b THEN a ELSE b

Max(a, b) == IF a >= b THEN a ELSE b

\* The settings after the increase-sidebar-font-size command.
increaseFontSize(s) == [s EXCEPT !.fontSize = Min(SliderMax, s.fontSize + 1)]

\* The settings after the decrease-sidebar-font-size command.
decreaseFontSize(s) == [s EXCEPT !.fontSize = Max(SliderMin, s.fontSize - 1)]

\* ------------------------------------------------------------------ state

VARIABLES
    pc,          \* "constructed" before onload has run, "ready" after
    data,        \* the blob the storage holds: loadData reads it, saveData writes it
    settings,    \* plugin.settings
    activeDoc,   \* the document of the active Markdown view, 0 when there is none
    viewOpen,    \* whether a leaf of the sidebar view exists
    searchQuery, \* the view's searchQuery
    allItems,    \* the item list the handlers of the last renderContent captured
    plan,        \* what the view's content element shows
    lastOp,      \* history: the handler that ran last, with its arguments
    pendingCalls,\* the calls of debouncedRefresh whose delay has not run out
    selection,   \* the editor selection the last scrollToItem set
    input,       \* the arguments of a function applied on its own
    output       \* whether the function has returned (done), and what (value)

hostVars == <<pendingCalls, selection>>

calcVars == <<input, output>>

vars == <<pc, data, settings, activeDoc, viewOpen, searchQuery, allItems, plan,
          lastOp, pendingCalls, selection, input, output>>

\* No scrollToItem has set a selection.
NoSelection == [doc |-> 0, line |-> 0, from |-> 0, to |-> 0]

\* No function has been applied on its own.
NotRun == [done |-> FALSE, value |-> << >>]

Op(op, type, arg) == [op |-> op, type |-> type, arg |-> arg]

\* ------------------------------------------------------------ stored blobs

\* The values a stored font size takes in the model: below the slider's range,
\* inside it, just above it, far above it.
StoredFontSizes == {SliderMin - 1, DefaultFontSize + 4, SliderMax + 1, 999}

\* The values a stored flag takes: the booleans, null, a string.
StoredFlags == {"true", "false", "null", "yes"}

\* The values a stored sort order takes: the four orders, an unknown string,
\* the empty string.
StoredSorts == SortOrder \cup {"bogus", ""}

ShowKeys == {"showHighlights", "showComments", "showFootnotes"}

\* The functions from at most n of the keys to the values.
PartialFns(keys, values, n) ==
    UNION { [S -> values] : S \in {T \in SUBSET keys : Cardinality(T) <= n} }

\* A nested object under key, or no such key when it has no entries.
NestedPart(key, f) ==
    IF DOMAIN f = {} THEN NoObject ELSE [k \in {key} |-> f]

\* The blobs with at most MaxBlobKeys leaf keys, drawn from the font size (when
\* font), the three show flags (when show), the default sort and the section
\* sorts (when sorts) and the collapse flags (when collapsed).
Blobs(font, show, sorts, collapsed) ==
    LET n == MaxBlobKeys
        Fonts == {NoObject} \cup
                 (IF font THEN {[fontSize |-> v] : v \in StoredFontSizes}
                  ELSE {})
        Shows == IF show THEN PartialFns(ShowKeys, StoredFlags, n)
                 ELSE {NoObject}
        Defaults == IF sorts
                    THEN PartialFns({"defaultSort"}, StoredSorts, n)
                    ELSE {NoObject}
        Sorts == IF sorts THEN PartialFns(ItemType, StoredSorts, n)
                 ELSE {NoObject}
        Collapses == IF collapsed THEN PartialFns(ItemType, StoredFlags, n)
                     ELSE {NoObject}
        Leaves(f, sh, d, so, c) ==
            Cardinality(DOMAIN f) + Cardinality(DOMAIN sh)
            + Cardinality(DOMAIN d) + Cardinality(DOMAIN so)
            + Cardinality(DOMAIN c)
    IN  { ObjectAssign(ObjectAssign(ObjectAssign(f, sh), d),
                       ObjectAssign(NestedPart("sectionSorts", so),
                                    NestedPart("sectionsCollapsed", c))) :
            <<f, sh, d, so, c>> \in
                { t \in Fonts \X Shows \X Defaults \X Sorts \X Collapses :
                    Leaves(t[1], t[2], t[3], t[4], t[5]) <= n } }

\* ----------------------------------------------------------------- actions

\* The state after construction: the plugin object holds DEFAULT_SETTINGS,
\* onload has not run, no view exists.
Constructed(blobs, docs) ==
    /\ pc = "constructed"
    /\ data \in blobs
    /\ settings = DEFAULT_SETTINGS
    /\ activeDoc \in docs
    /\ viewOpen = FALSE
    /\ searchQuery = << >>
    /\ allItems = << >>
    /\ plan = NoPlan
    /\ lastOp = Op("new", "", "")
    /\ pendingCalls = 0
    /\ selection = NoSelection

\* The plugin on its own: no function is applied outside it.
InitWith(blobs, docs) ==
    /\ Constructed(blobs, docs)
    /\ input = NotRun
    /\ output = NotRun

\* onload: loadSettings, then the registrations.
OnLoad ==
    /\ pc = "constructed"
    /\ pc' = "ready"
    /\ settings' = loadSettings(data)
    /\ lastOp' = Op("load", "", "")
    /\ UNCHANGED <<data, activeDoc, viewOpen, searchQuery, allItems, plan>>
    /\ UNCHANGED <<hostVars, calcVars>>

\* renderContent of the open view.
Render(s, q) ==
    LET r == renderContent(s, activeDoc, q)
    IN  /\ plan' = r.plan
        /\ allItems' = r.allItems

\* refreshView: renderContent of every leaf of the view.
RefreshView(s) ==
    IF viewOpen THEN Render(s, searchQuery) ELSE UNCHANGED <<plan, allItems>>

\* A handler that changes the settings, saves them and calls refreshView.
ChangeSaveRefresh(s) ==
    /\ settings' = s
    /\ data' = s
    /\ RefreshView(s)
    /\ UNCHANGED <<pc, activeDoc, viewOpen, searchQuery>>
    /\ UNCHANGED <<hostVars, calcVars>>

\* A handler of the open view that changes the settings, saves them and calls
\* renderContent.
ChangeSaveRender(s) ==
    /\ settings' = s
    /\ data' = s
    /\ Render(s, searchQuery)
    /\ UNCHANGED <<pc, activeDoc, viewOpen, searchQuery>>
    /\ UNCHANGED <<hostVars, calcVars>>

\* toggleView (ribbon icon, command): detach the leaves of the view, or
\* activateView, whose new view starts with the empty query and renders in
\* onOpen.
ToggleView ==
    /\ pc = "ready"
    /\ IF viewOpen
       THEN /\ viewOpen' = FALSE
            /\ searchQuery' = << >>
            /\ allItems' = << >>
            /\ plan' = NoPlan
       ELSE /\ viewOpen' = TRUE
            /\ searchQuery' = << >>
            /\ Render(settings, << >>)
    /\ lastOp' = Op("toggleView", "", "")
    /\ UNCHANGED <<pc, data, settings, activeDoc>>
    /\ UNCHANGED <<hostVars, calcVars>>

\* An input handler that also saves the settings.
SearchInputSaving(value) ==
    /\ viewOpen /\ plan.controls
    /\ searchQuery' = value
    /\ data' = settings
    /\ LET rs == renderSections(allItems, value, settings)
       IN  plan' = [plan EXCEPT !.message = rs.message,
                                !.sections = rs.sections]
    /\ lastOp' = Op("search", "", "")
    /\ UNCHANGED <<pc, settings, activeDoc, viewOpen, allItems>>
    /\ UNCHANGED <<hostVars, calcVars>>

\* The input handler of the search box.
SearchInput(value) ==
    /\ viewOpen /\ plan.controls
    /\ searchQuery' = value
    /\ LET rs == renderSections(allItems, value, settings)
       IN  plan' = [plan EXCEPT !.message = rs.message,
                                !.sections = rs.sections]
    /\ lastOp' = Op("search", "", "")
    /\ UNCHANGED <<pc, data, settings, activeDoc, viewOpen, allItems>>
    /\ UNCHANGED <<hostVars, calcVars>>

\* The click handler of the clear button.
ClearSearch ==
    /\ viewOpen /\ plan.clearBtn
    /\ searchQuery' = << >>
    /\ LET rs == renderSections(allItems, << >>, settings)
       IN  plan' = [plan EXCEPT !.message = rs.message,
                                !.sections = rs.sections]
    /\ lastOp' = Op("clear", "", "")
    /\ UNCHANGED <<pc, data, settings, activeDoc, viewOpen, allItems>>
    /\ UNCHANGED <<hostVars, calcVars>>

\* A click on a toggle button of the toggle bar (or on the category's item of
\* its context menu, or on "Hide" in the context menu of a section header).
ToggleButtonClick(type) ==
    /\ viewOpen /\ plan.controls
    /\ ChangeSaveRender(toggleSectionVisibility(settings, type))
    /\ lastOp' = Op("toggle", "", "")

\* "Show all sections" of the toggle bar's context menu.
ShowAllSections ==
    /\ viewOpen /\ plan.controls
    /\ ChangeSaveRender(showAllSections(settings))
    /\ lastOp' = Op("showAll", "", "")

\* A header click that flips the flag and patches the header without saving.
HeaderClickUnsaved(type) ==
    /\ viewOpen /\ HasSection(plan, type)
    /\ settings' = toggleCollapsed(settings, type)
    /\ plan' = [plan EXCEPT !.sections =
                  [n \in 1..Len(plan.sections) |->
                      IF plan.sections[n].type = type
                      THEN [plan.sections[n] EXCEPT !.collapsed =
                              Truthy(settings'.sectionsCollapsed[type])]
                      ELSE plan.sections[n]]]
    /\ lastOp' = Op("collapse", "", "")
    /\ UNCHANGED <<pc, data, activeDoc, viewOpen, searchQuery, allItems>>
    /\ UNCHANGED <<hostVars, calcVars>>

\* A click on a section header: the flag flips and is saved, and the header and
\* the list are patched in place, with no render.
HeaderClick(type) ==
    /\ viewOpen /\ HasSection(plan, type)
    /\ settings' = toggleCollapsed(settings, type)
    /\ data' = settings'
    /\ plan' = [plan EXCEPT !.sections =
                  [n \in 1..Len(plan.sections) |->
                      IF plan.sections[n].type = type
                      THEN [plan.sections[n] EXCEPT !.collapsed =
                              Truthy(settings'.sectionsCollapsed[type])]
                      ELSE plan.sections[n]]]
    /\ lastOp' = Op("collapse", "", "")
    /\ UNCHANGED <<pc, activeDoc, viewOpen, searchQuery, allItems>>
    /\ UNCHANGED <<hostVars, calcVars>>

\* A pick in the sort menu of a section (sort button, or header context menu).
SortMenuPick(type, order) ==
    /\ viewOpen /\ HasSection(plan, type)
    /\ ChangeSaveRender(setSectionSort(settings, type, order))
    /\ lastOp' = Op("sort", type, order)

\* The default sort dropdown of the settings tab.
DefaultSortChange(newSort) ==
    /\ pc = "ready"
    /\ ChangeSaveRefresh(setDefaultSort(settings, newSort))
    /\ lastOp' = Op("defaultSort", "", newSort)

\* One of the three visibility toggles of the settings tab.
SettingToggle(type, value) ==
    /\ pc = "ready"
    /\ ChangeSaveRefresh(setShow(settings, type, value))
    /\ lastOp' = Op("setShow", "", "")

\* The font size slider of the settings tab.
SliderChange(value) ==
    /\ pc = "ready"
    /\ ChangeSaveRefresh(setFontSize(settings, value))
    /\ lastOp' = Op("slider", "", "")

\* The increase-sidebar-font-size command.
IncreaseFontSize ==
    /\ pc = "ready"
    /\ ChangeSaveRefresh(increaseFontSize(settings))
    /\ lastOp' = Op("increase", "", "")

\* The decrease-sidebar-font-size command.
DecreaseFontSize ==
    /\ pc = "ready"
    /\ ChangeSaveRefresh(decreaseFontSize(settings))
    /\ lastOp' = Op("decrease", "", "")

\* The calls of debouncedRefresh that can fall into one delay.
MaxBurst == 2

\* A call of debouncedRefresh: the delay starts again, with one more call
\* waiting for its end.
debouncedRefresh ==
    /\ pendingCalls < MaxBurst
    /\ pendingCalls' = pendingCalls + 1

\* The editor-change event: the text of the active editor has become that of
\* document d.
EditorChange(d) ==
    /\ pc = "ready"
    /\ activeDoc # 0 /\ d # 0 /\ d # activeDoc
    /\ activeDoc' = d
    /\ debouncedRefresh
    /\ lastOp' = Op("editorChange", "", "")
    /\ UNCHANGED <<pc, data, settings, viewOpen, searchQuery, allItems, plan>>
    /\ UNCHANGED <<selection, calcVars>>

\* The active-leaf-change event: the active Markdown view is now that of
\* document d, or there is none (d = 0).
ActiveLeafChange(d) ==
    /\ pc = "ready"
    /\ activeDoc' = d
    /\ debouncedRefresh
    /\ lastOp' = Op("leafChange", "", "")
    /\ UNCHANGED <<pc, data, settings, viewOpen, searchQuery, allItems, plan>>
    /\ UNCHANGED <<selection, calcVars>>

\* A timer that serves one call and leaves the others waiting.
DebounceTimeoutPerCall ==
    /\ pendingCalls > 0
    /\ pendingCalls' = pendingCalls - 1
    /\ RefreshView(settings)
    /\ lastOp' = Op("refresh", "",
                    IF pendingCalls > 1 THEN "coalesced" ELSE "single")
    /\ UNCHANGED <<pc, data, settings, activeDoc, viewOpen, searchQuery>>
    /\ UNCHANGED <<selection, calcVars>>

\* The delay has run out with no further call: refreshView runs once for all
\* the calls since the last run.
DebounceTimeout ==
    /\ pendingCalls > 0
    /\ pendingCalls' = 0
    /\ RefreshView(settings)
    /\ lastOp' = Op("refresh", "",
                    IF pendingCalls > 1 THEN "coalesced" ELSE "single")
    /\ UNCHANGED <<pc, data, settings, activeDoc, viewOpen, searchQuery>>
    /\ UNCHANGED <<selection, calcVars>>

\* A scrollToItem that selects as many characters as the record's text has.
scrollToItemOfText(item) ==
    IF activeDoc = 0
    THEN UNCHANGED selection
    ELSE selection' = [doc |-> activeDoc, line |-> item.line,
                       from |-> item.ch, to |-> item.ch + Len(item.text)]

\* scrollToItem: nothing without an active Markdown view; else the cursor and
\* the selection of its editor are set from the record.
scrollToItem(item) ==
    IF activeDoc = 0
    THEN UNCHANGED selection
    ELSE selection' = [doc |-> activeDoc, line |-> item.line,
                       from |-> item.ch, to |-> item.ch + item.matchLength]

\* A click on row m of section n of the content element.
ItemClick(n, m) ==
    /\ viewOpen
    /\ n \in 1..Len(plan.sections)
    /\ ~plan.sections[n].collapsed
    /\ m \in 1..Len(plan.sections[n].rows)
    /\ scrollToItem(plan.sections[n].rows[m])
    /\ lastOp' = Op("click", "", "")
    /\ UNCHANGED <<pc, data, settings, activeDoc, viewOpen, searchQuery,
                   allItems, plan, pendingCalls, calcVars>>

\* --------------------------------------------------------- specifications

\* The sort orders and the visibility: every handler that changes either.
Init == InitWith(Blobs(FALSE, FALSE, TRUE, FALSE), {Len(Docs)})

Next ==
    \/ OnLoad
    \/ ToggleView
    \/ \E type \in ItemType : ToggleButtonClick(type)
    \/ ShowAllSections
    \/ \E type \in ItemType, order \in SortOrder : SortMenuPick(type, order)
    \/ \E newSort \in SortOrder : DefaultSortChange(newSort)
    \/ \E type \in ItemType, value \in {"true", "false"} :
          SettingToggle(type, value)

Spec == Init /\ [][Next]_vars

\* The font size: the slider and the two commands.
InitFont == InitWith(Blobs(TRUE, FALSE, FALSE, FALSE), DocIds)

NextFont ==
    \/ OnLoad
    \/ ToggleView
    \/ \E value \in SliderMin..SliderMax : SliderChange(value)
    \/ IncreaseFontSize
    \/ DecreaseFontSize

SpecFont == InitFont /\ [][NextFont]_vars

\* The render plan: every document and query, the visibility and the collapse
\* flags.
InitRender == InitWith(Blobs(FALSE, TRUE, FALSE, TRUE), DocIds)

NextRender ==
    \/ OnLoad
    \/ ToggleView
    \/ \E value \in Queries : SearchInput(value)
    \/ ClearSearch
    \/ \E type \in ItemType : ToggleButtonClick(type)
    \/ ShowAllSections
    \/ \E type \in ItemType : HeaderClick(type)
    \/ \E type \in ItemType, value \in {"true", "false"} :
          SettingToggle(type, value)

SpecRender == InitRender /\ [][NextRender]_vars

\* The saves: every handler that changes a persisted field, on one category,
\* over a document that holds every category.
SaveBlobs ==
    { NoObject,
      [fontSize |-> SliderMax + 1],
      [showComments |-> "false"],
      [sectionsCollapsed |-> [comment |-> "true"]] }

InitSave == InitWith(SaveBlobs, {Len(Docs)})

NextSave ==
    \/ OnLoad
    \/ ToggleView
    \/ ToggleButtonClick("comment")
    \/ ShowAllSections
    \/ HeaderClick("comment")
    \/ \E order \in SortOrder : SortMenuPick("comment", order)
    \/ \E newSort \in SortOrder : DefaultSortChange(newSort)
    \/ \E value \in {"true", "false"} : SettingToggle("comment", value)
    \/ \E value \in {SliderMin, SliderMax} : SliderChange(value)
    \/ IncreaseFontSize
    \/ DecreaseFontSize

SpecSave == InitSave /\ [][NextSave]_vars

\* The events of the workspace, the debounced refresh and the clicks on the
\* rows, with the default settings.
\* The rows a section can hold in the model.
MaxRows == 2

InitRefresh == InitWith({NoObject}, DocIds)

NextRefresh ==
    \/ OnLoad
    \/ ToggleView
    \/ \E d \in DocIds : EditorChange(d)
    \/ \E d \in DocIds : ActiveLeafChange(d)
    \/ DebounceTimeout
    \/ \E n \in 1..Len(ItemTypes), m \in 1..MaxRows : ItemClick(n, m)

\* The timer of the debounce runs out once no call restarts it.
SpecRefresh == InitRefresh /\ [][NextRefresh]_vars /\ WF_vars(DebounceTimeout)

\* The parser on its own: the document is any text of at most MaxTokens
\* pieces of annotation syntax (whole annotations, lone delimiters, text, a
\* line break), or any line of at most MaxHighlightTokens pieces of the
\* double-equals syntax.
MaxTokens == 3

MaxHighlightTokens == 4

ParseTokens ==
    { <<"=", "=", "a", "=", "=">>,
      <<"<", "M", "a", "r", "k", ">", "a", "<", "/", "m", "a", "r", "k", ">">>,
      <<"%", "%", " ", "a", " ", "%", "%">>,
      <<"<", "!", "-", "-", "a", " ", "-", "-", ">">>,
      <<"[", "^", "1", "]", ":", " ", "a">>,
      <<"=", "=">>, <<"%", "%">>, <<"a">>, <<" ">>, <<"\n">> }

HighlightTokens ==
    { <<"=", "=", "a">>, <<"=", "=", "b">>, <<"=", "=", "c">>, <<"=", "=">>,
      <<"=">> }

\* The texts made of at most n of the tokens.
RECURSIVE TextsOf(_, _)
TextsOf(tokens, n) ==
    IF n = 0 THEN { << >> }
    ELSE { << >> }
         \cup { t \o token : t \in TextsOf(tokens, n - 1), token \in tokens }

\* A function applied on its own: the plugin stays as constructed.
InitCalc(inputs) ==
    /\ Constructed({NoObject}, {0})
    /\ input \in inputs
    /\ output = NotRun

\* The function has returned result.
Return(result) ==
    /\ ~output.done
    /\ output' = [done |-> TRUE, value |-> result]
    /\ UNCHANGED <<pc, data, settings, activeDoc, viewOpen, searchQuery,
                   allItems, plan, lastOp, hostVars, input>>

InitParse ==
    InitCalc(TextsOf(ParseTokens, MaxTokens)
             \cup TextsOf(HighlightTokens, MaxHighlightTokens))

\* parseContent(content) of renderContent, on the text of the editor.
ParseContent == Return(parseContent(input))

NextParse == ParseContent

SpecParse == InitParse /\ [][NextParse]_vars

\* The filter and the sort on their own: the list is any list of at most
\* MaxItems of the records of ItemPool, the query any string of at most
\* MaxQueryLen of the characters of QueryChars.
MaxItems == 3

MaxQueryLen == 2

\* A record as parseContent pushes it.
Item(type, text, line, ch) ==
    [type |-> type, text |-> text, line |-> line, ch |-> ch,
     matchLength |-> Len(text) + 4]

\* Records of every category; two lie at one place, two have texts that
\* differ in case only.
ItemPool ==
    { Item("highlight", <<"a">>, 0, 0),
      Item("comment", <<"A">>, 0, 0),
      Item("highlight", <<"A", "b">>, 0, 5),
      Item("footnote", <<"b", " ", "c">>, 1, 0),
      Item("comment", <<"B">>, 1, 3) }

QueryChars == { <<"a">>, <<"B">>, <<" ">> }

RECURSIVE ListsOf(_, _)
ListsOf(pool, n) ==
    IF n = 0 THEN { << >> }
    ELSE { << >> }
         \cup { <<x>> \o l : x \in pool, l \in ListsOf(pool, n - 1) }

InitFilter ==
    InitCalc([items : ListsOf(ItemPool, MaxItems),
              query : TextsOf(QueryChars, MaxQueryLen)])

\* The filter of renderSections on the captured list and the typed query.
FilterItems == Return(filterItems(input.items, input.query))

NextFilter == FilterItems

SpecFilter == InitFilter /\ [][NextFilter]_vars

InitSort == InitCalc([items : ListsOf(ItemPool, MaxItems), order : SortOrder])

\* sortItems(groupItems, sortOrder) of renderSections.
SortItems == Return(sortItems(input.items, input.order))

NextSort == SortItems

SpecSort == InitSort /\ [][NextSort]_vars

\* ----------------------------------------------------------------- claims

\* The records of a category that pass the filter of the open view.
FilteredOf(type) ==
    LET InGroup(item) == item.type = type
    IN  SelectSeq(filterItems(allItems, searchQuery), InGroup)

\* The plan is none of the empty states: the sections container was rendered
\* and holds no message.
PlanShowsSections == viewOpen /\ plan.controls /\ plan.message = ""

\* C1: in every reachable state the font size is an integer in [10, 24], also
\* right after loading a persisted blob.
C1_FontSizeInRange == settings.fontSize \in SliderMin..SliderMax

\* C2: after the default sort order is changed to X, defaultSort is X and the
\* sort order of each of the three categories is X.
C2_DefaultSortResetsAll ==
    lastOp.op = "defaultSort" =>
        /\ settings.defaultSort = lastOp.arg
        /\ \A type \in ItemType : settings.sectionSorts[type] = lastOp.arg
        /\ \A type \in ItemType : sectionSortOrder(settings, type) = lastOp.arg

\* C2 witness: the default was changed to z-a while the view shows sections,
\* and every section is shown in that order.
C2_Witness ==
    /\ lastOp.op = "defaultSort"
    /\ lastOp.arg = "z-a"
    /\ Len(plan.sections) = Len(ItemTypes)
    /\ \A n \in 1..Len(plan.sections) : plan.sections[n].sortOrder = "z-a"

\* C3: a pick in the sort menu of a category changes that category's entry
\* only (the default sort, the other categories' orders, the visibility, the
\* collapse flags and the font size keep their values), the picked order is
\* the category's effective order, and every later step that is neither a
\* pick for that category nor a change of the default sort keeps the
\* category's effective order.
C3_SortPickFrame ==
    [][ /\ lastOp'.op = "sort" =>
            /\ settings'.sectionSorts[lastOp'.type] = lastOp'.arg
            /\ sectionSortOrder(settings', lastOp'.type) = lastOp'.arg
            /\ settings'.defaultSort = settings.defaultSort
            /\ \A type \in ItemType \ {lastOp'.type} :
                  settings'.sectionSorts[type] = settings.sectionSorts[type]
            /\ \A type \in ItemType :
                  isSectionVisible(settings', type)
                      = isSectionVisible(settings, type)
            /\ settings'.sectionsCollapsed = settings.sectionsCollapsed
            /\ settings'.fontSize = settings.fontSize
        /\ \A type \in ItemType :
              ( /\ lastOp'.op \notin {"load", "defaultSort"}
                /\ ~(lastOp'.op = "sort" /\ lastOp'.type = type) )
              => sectionSortOrder(settings', type)
                     = sectionSortOrder(settings, type) ]_vars

\* C3 witness: an order other than the default was picked for the comments,
\* the other two categories keep another order, and the comments section
\* shows the picked order.
C3_Witness ==
    /\ lastOp = Op("sort", "comment", "a-z")
    /\ settings.defaultSort = "line-desc"
    /\ settings.sectionSorts["highlight"] = "z-a"
    /\ settings.sectionSorts["footnote"] = "line-desc"
    /\ HasSection(plan, "comment")
    /\ SectionOf(plan, "comment").sortOrder = "a-z"

\* C4: a click on a toggle button flips the visible flag of one category and
\* leaves everything else, and a second click on the same button restores the
\* settings the first click found.
C4_ToggleTwiceRestores ==
    [][ lastOp'.op = "toggle" =>
            /\ searchQuery' = searchQuery
            /\ \E type \in ItemType :
                  /\ settings' = toggleSectionVisibility(settings, type)
                  /\ Truthy(isSectionVisible(settings', type))
                         # Truthy(isSectionVisible(settings, type))
                  /\ toggleSectionVisibility(settings', type) = settings ]_vars

\* C4 restricted to a flag that holds a boolean: the second click restores the
\* settings.
C4_ToggleTwiceRestoresBooleans ==
    [][ lastOp'.op = "toggle" =>
            \E type \in ItemType :
                /\ settings' = toggleSectionVisibility(settings, type)
                /\ IsBoolean(isSectionVisible(settings, type))
                       => toggleSectionVisibility(settings', type) = settings
      ]_vars

\* C5: when the visible flag of a category is false (or another falsy value),
\* the plan of the open view holds no section for it.
C5_HiddenCategoryHasNoSection ==
    viewOpen =>
        \A type \in ItemType :
            ~Truthy(isSectionVisible(settings, type))
                => ~HasSection(plan, type)

\* C5 witness: the highlights are hidden, a highlight passes the filter, and
\* the plan shows the sections of other categories.
C5_Witness ==
    /\ viewOpen
    /\ settings.showHighlights = "false"
    /\ Len(FilteredOf("highlight")) > 0
    /\ Len(plan.sections) > 0
    /\ ~HasSection(plan, "highlight")

\* C6 as stated: a plan that is none of the empty states holds a section for
\* every category whose visible flag is true, with the number of its filtered
\* records as its count.
C6_EveryVisibleCategoryHasSection ==
    PlanShowsSections =>
        \A type \in ItemType :
            isSectionVisible(settings, type) = "true" =>
                /\ HasSection(plan, type)
                /\ SectionOf(plan, type).count = Len(FilteredOf(type))

\* C6 amended: a plan that is none of the empty states holds a section for
\* every category whose visible flag is true and that has a record after
\* filtering, every section it holds is of a category with such a record, and
\* the count of a section is the number of the category's filtered records.
C6_NonEmptyVisibleCategoryHasSection ==
    PlanShowsSections =>
        \A type \in ItemType :
            /\ ( isSectionVisible(settings, type) = "true"
                 /\ Len(FilteredOf(type)) > 0 ) => HasSection(plan, type)
            /\ HasSection(plan, type) =>
                  /\ SectionOf(plan, type).count = Len(FilteredOf(type))
                  /\ SectionOf(plan, type).count > 0

\* C6 witness: under a query, a visible category keeps some of its records and
\* has a section counting them, and another visible category keeps none and
\* has no section.
C6_Witness ==
    /\ PlanShowsSections
    /\ Len(trim(searchQuery)) > 0
    /\ \E type \in ItemType :
          /\ isSectionVisible(settings, type) = "true"
          /\ HasSection(plan, type)
          /\ SectionOf(plan, type).count = 1
          /\ \E n \in 1..Len(allItems) :
                /\ allItems[n].type = type
                /\ \A m \in 1..Len(SectionOf(plan, type).rows) :
                      SectionOf(plan, type).rows[m] # allItems[n]
    /\ \E type \in ItemType :
          /\ isSectionVisible(settings, type) = "true"
          /\ Len(FilteredOf(type)) = 0
          /\ ~HasSection(plan, type)

\* C7: when the document has an annotation and no record of a visible
\* category passes the filter, the plan holds the "no matching items" message.
C7_NoVisibleMatchIsSignalled ==
    ( /\ viewOpen
      /\ plan.controls
      /\ Len(allItems) > 0
      /\ \A type \in ItemType :
            Truthy(isSectionVisible(settings, type))
                => Len(FilteredOf(type)) = 0 )
    => plan.message = NoMatchText

\* C8: a change of the search query (input or clear) saves nothing and leaves
\* the settings as they are, the blob in the storage never holds the query,
\* and a view that is opened starts with the empty query.
C8_SearchIsTransient ==
    [][ /\ lastOp'.op \in {"search", "clear"} =>
            /\ data' = data
            /\ settings' = settings
        /\ "searchQuery" \notin DOMAIN data'
        /\ (lastOp'.op = "toggleView" /\ viewOpen') => searchQuery' = << >>
      ]_vars

\* C8 witness: a query was typed while the storage holds a blob that differs
\* from the settings, so a save would have changed the storage.
C8_Witness ==
    /\ lastOp.op = "search"
    /\ Len(searchQuery) > 0
    /\ data # settings

\* C9: right after the load every flag is a boolean and every sort order is
\* one of the four orders.
C9_LoadedSettingsWellTyped ==
    lastOp.op = "load" =>
        /\ \A type \in ItemType :
              /\ IsBoolean(isSectionVisible(settings, type))
              /\ IsBoolean(settings.sectionsCollapsed[type])
              /\ settings.sectionSorts[type] \in SortOrder
        /\ settings.defaultSort \in SortOrder

\* C10: right after the load of a blob that holds a default sort order X and
\* no sort order for a category, the category's order is X.
C10_MissingSectionSortIsDefault ==
    ( /\ lastOp.op = "load"
      /\ "defaultSort" \in DOMAIN data
      /\ data.defaultSort \in SortOrder )
    => \A type \in ItemType \ DOMAIN Nested(data, "sectionSorts") :
          /\ settings.sectionSorts[type] = data.defaultSort
          /\ sectionSortOrder(settings, type) = data.defaultSort

\* The handlers that change a persisted field.
PersistingOps ==
    { "toggle", "showAll", "collapse", "sort", "defaultSort", "setShow",
      "slider", "increase", "decrease" }

\* C11: every handler that changes a persisted field (font size, visibility,
\* show-all, collapse flag, sort order, default sort order) has handed the
\* whole settings to storage when it ends, so the blob the storage holds
\* equals the settings in memory; before the first such handler the settings
\* in memory are the ones loaded from the blob.
C11_SavedEqualsSettings ==
    /\ lastOp.op \in PersistingOps => data = settings
    /\ pc = "ready" => (data = settings \/ settings = loadSettings(data))

\* A header click has collapsed the comments, and the blob holds the flag.
C11_Witness ==
    /\ lastOp.op = "collapse"
    /\ settings.sectionsCollapsed.comment = "true"
    /\ data = settings

\* The characters the record's (line, ch, matchLength) cover in the text.
SpanOf(text, item) ==
    SubSeq(split(text)[item.line + 1], item.ch + 1, item.ch + item.matchLength)

\* The place of the pattern that matched a span in the order the parser
\* applies its five patterns to a line.
PatternRank(span) ==
    CASE OccursAt(span, <<"=", "=">>, 1) -> 1
      [] OccursAt(toLowerCase(span), <<"<", "m", "a", "r", "k", ">">>, 1) -> 2
      [] OccursAt(span, <<"%", "%">>, 1) -> 3
      [] OccursAt(span, <<"<", "!", "-", "-">>, 1) -> 4
      [] OTHER -> 5

\* a comes before b by line, then by pattern, then by column.
BeforeInScan(text, a, b) ==
    LET ra == PatternRank(SpanOf(text, a))
        rb == PatternRank(SpanOf(text, b))
    IN  \/ a.line < b.line
        \/ a.line = b.line /\ ra < rb
        \/ a.line = b.line /\ ra = rb /\ a.ch < b.ch

\* C12 as stated: the list the parser returns is in LineAscending order,
\* sorting it by line then column returns the same sequence.
C12_ParseOrderIsLineAscending ==
    output.done => sortItems(output.value, "line-asc") = output.value

\* C12 amended: the list the parser returns is in ascending line order, and
\* within a line in the order of the five patterns, each pattern's matches by
\* ascending column.
C12_ParseOrderIsLineThenPattern ==
    output.done =>
        \A i, j \in 1..Len(output.value) :
            i < j => BeforeInScan(input, output.value[i], output.value[j])

\* A line whose comment lies left of its highlight has been parsed: the
\* highlight comes first in the list.
C12_Witness ==
    /\ output.done
    /\ Len(output.value) = 2
    /\ output.value[1].line = output.value[2].line
    /\ output.value[1].ch > output.value[2].ch

\* span is open, inner, close (read on hay, span in lower case for a pattern
\* with the i flag) and text is inner, trimmed for a comment.
IsDelimited(span, hay, open, close, text, trimmed) ==
    /\ Len(span) >= Len(open) + Len(close)
    /\ OccursAt(hay, open, 1)
    /\ OccursAt(hay, close, Len(span) - Len(close) + 1)
    /\ LET inner == SubSeq(span, Len(open) + 1, Len(span) - Len(close))
       IN  text = IF trimmed THEN trim(inner) ELSE inner

\* span is a footnote definition "[^id]:", white space, rest, and text is
\* "[^id]: rest".
IsFootnote(span, text) ==
    /\ OccursAt(span, <<"[", "^">>, 1)
    /\ \E k \in 4..(Len(span) - 1) :
          /\ span[k] = "]" /\ span[k + 1] = ":"
          /\ \A q \in 3..(k - 1) : span[q] # "]"
          /\ text = <<"[", "^">> \o SubSeq(span, 3, k - 1) \o <<"]", ":", " ">>
                    \o TrimStart(SubSeq(span, k + 2, Len(span)))

\* span is the whole text one of the patterns of the record's category
\* matched, delimiters included, and the record's text is what the pattern
\* captured.
IsMatchOf(span, item) ==
    CASE item.type = "highlight" ->
            \/ IsDelimited(span, span, <<"=", "=">>, <<"=", "=">>,
                           item.text, FALSE)
            \/ IsDelimited(span, toLowerCase(span),
                           <<"<", "m", "a", "r", "k", ">">>,
                           <<"<", "/", "m", "a", "r", "k", ">">>,
                           item.text, FALSE)
      [] item.type = "comment" ->
            \/ IsDelimited(span, span, <<"%", "%">>, <<"%", "%">>,
                           item.text, TRUE)
            \/ IsDelimited(span, span, <<"<", "!", "-", "-">>,
                           <<"-", "-", ">">>, item.text, TRUE)
      [] item.type = "footnote" -> IsFootnote(span, item.text)
      [] OTHER -> FALSE

\* C13: every record the parser returns has a line that is a line index of
\* the document, a column >= 0 and column + matchLength <= the length of that
\* line, and the characters of the line in [column, column + matchLength) are
\* the whole matched text, delimiters included.
C13_RecordsCoverTheirMatch ==
    output.done =>
        \A n \in 1..Len(output.value) :
            LET item == output.value[n]
                lines == split(input)
            IN  /\ item.line \in 0..(Len(lines) - 1)
                /\ item.ch >= 0
                /\ item.matchLength >= 0
                /\ item.ch + item.matchLength <= Len(lines[item.line + 1])
                /\ IsMatchOf(SpanOf(input, item), item)

\* A document with a comment on its second line has been parsed, and white
\* space around the comment's text was trimmed.
C13_Witness ==
    /\ output.done
    /\ \E n \in 1..Len(output.value) :
          /\ output.value[n].type = "comment"
          /\ output.value[n].line = 1
          /\ output.value[n].matchLength > Len(output.value[n].text) + 4

\* The line of the example: ==a==b==c==
ExampleLine ==
    <<"=", "=", "a", "=", "=", "b", "=", "=", "c", "=", "=">>

\* The delimiters of the four delimiter patterns, in the parser's order.
Delimiters ==
    << [open |-> <<"=", "=">>, close |-> <<"=", "=">>],
       [open |-> <<"<", "m", "a", "r", "k", ">">>,
        close |-> <<"<", "/", "m", "a", "r", "k", ">">>],
       [open |-> <<"%", "%">>, close |-> <<"%", "%">>],
       [open |-> <<"<", "!", "-", "-">>, close |-> <<"-", "-", ">">>] >>

\* The records a delimiter pattern gave are found left to right and do not
\* overlap, and each ends at the first closing delimiter behind its opening
\* one.
DelimitedMatchesAreShortestInOrder ==
    /\ \A n \in 1..Len(output.value) :
          LET item == output.value[n]
              line == split(input)[item.line + 1]
              r == PatternRank(SpanOf(input, item))
          IN  r \in 1..4 =>
                IndexOfFrom(IF r = 2 THEN toLowerCase(line) ELSE line,
                            Delimiters[r].close,
                            item.ch + 1 + Len(Delimiters[r].open))
                = item.ch + 1 + item.matchLength - Len(Delimiters[r].close)
    /\ \A m, n \in 1..Len(output.value) :
          ( /\ m < n
            /\ output.value[m].line = output.value[n].line
            /\ PatternRank(SpanOf(input, output.value[m]))
               = PatternRank(SpanOf(input, output.value[n])) )
          => output.value[m].ch + output.value[m].matchLength <= output.value[n].ch

\* The texts of the records of a list.
TextsIn(items) == [n \in 1..Len(items) |-> items[n].text]

\* C18 as stated: the line ==a==b==c== gives two highlights, "a" then "b";
\* the matches of a delimiter pattern are found left to right, do not overlap
\* and are the shortest from their opening delimiter.
C18_ExampleYieldsAThenB ==
    output.done =>
        /\ input = ExampleLine =>
              /\ TextsIn(output.value) = << <<"a">>, <<"b">> >>
              /\ \A n \in 1..Len(output.value) : output.value[n].type = "highlight"
        /\ DelimitedMatchesAreShortestInOrder

\* C18 amended: the line ==a==b==c== gives two highlights, "a" at column 0
\* and "c" at column 6 (the delimiters around b close the first match and open
\* the second); the matches of a delimiter pattern are found left to right,
\* do not overlap and are the shortest from their opening delimiter.
C18_ExampleYieldsAThenC ==
    output.done =>
        /\ input = ExampleLine =>
              /\ TextsIn(output.value) = << <<"a">>, <<"c">> >>
              /\ \A n \in 1..Len(output.value) : output.value[n].type = "highlight"
              /\ output.value[1].ch = 0 /\ output.value[2].ch = 6
        /\ DelimitedMatchesAreShortestInOrder

\* The line of the example has been parsed.
C18_Witness == input = ExampleLine /\ output.done /\ Len(output.value) = 2

\* sub is seq with some records left out.
RECURSIVE IsSubsequence(_, _)
IsSubsequence(sub, seq) ==
    IF sub = << >> THEN TRUE
    ELSE IF seq = << >> THEN FALSE
    ELSE IF Head(sub) = Head(seq) THEN IsSubsequence(Tail(sub), Tail(seq))
    ELSE IsSubsequence(sub, Tail(seq))

\* C14: the filter returns a subsequence of its input, the records in their
\* input order and none added or altered, and with the empty query it returns
\* the input list.
C14_FilterKeepsOrderAndRecords ==
    output.done =>
        /\ IsSubsequence(output.value, input.items)
        /\ input.query = << >> => output.value = input.items

\* A query has kept some records of a list of three and dropped others.
C14_Witness ==
    /\ output.done
    /\ input.query # << >>
    /\ Len(input.items) = 3
    /\ Len(output.value) \in 1..2

\* text contains q when both are put in lower case.
ContainsIgnoringCase(text, q) == includes(toLowerCase(text), toLowerCase(q))

\* C15 as stated: every record the filter returns has a text that contains the
\* query as typed, compared case-insensitively.
C15_KeptRecordsContainTypedQuery ==
    output.done =>
        \A n \in 1..Len(output.value) :
            ContainsIgnoringCase(output.value[n].text, input.query)

\* C15 amended: the filter returns the records whose text contains the query
\* with its leading and trailing white space removed, compared
\* case-insensitively, and only those.
C15_KeptRecordsContainTrimmedQuery ==
    output.done =>
        LET Contains(item) == ContainsIgnoringCase(item.text, trim(input.query))
        IN  output.value = SelectSeq(input.items, Contains)

\* A query that ends in a space has kept a record that holds no space.
C15_Witness ==
    /\ output.done
    /\ input.query = <<"a", " ">>
    /\ \E n \in 1..Len(output.value) : output.value[n].text = <<"A">>

\* a is not after b in the order, by the keys the four orders name: line then
\* column, ascending or descending; text without regard to case, ascending or
\* descending.
NotAfter(order, a, b) ==
    CASE order = "line-asc" ->
            a.line < b.line \/ (a.line = b.line /\ a.ch <= b.ch)
      [] order = "line-desc" ->
            a.line > b.line \/ (a.line = b.line /\ a.ch >= b.ch)
      [] order = "a-z" ->
            localeCompare(toLowerCase(a.text), toLowerCase(b.text)) <= 0
      [] order = "z-a" ->
            localeCompare(toLowerCase(a.text), toLowerCase(b.text)) >= 0

\* The one-to-one maps of the positions of a list of n records.
PositionMaps(n) ==
    { f \in [1..n -> 1..n] : \A i, j \in 1..n : f[i] = f[j] => i = j }

\* sorted holds the records of items, ordered by the order's keys, the records
\* with equal keys in the order they have in items.
IsStableSortOf(sorted, items, order) ==
    /\ Len(sorted) = Len(items)
    /\ \E f \in PositionMaps(Len(items)) :
          /\ \A k \in 1..Len(items) : sorted[k] = items[f[k]]
          /\ \A k, l \in 1..Len(items) :
                k < l =>
                    /\ NotAfter(order, sorted[k], sorted[l])
                    /\ NotAfter(order, sorted[l], sorted[k]) => f[k] < f[l]

\* C16: for each of the four orders, sortItems returns a permutation of its
\* input ordered by the order's keys, records with equal keys in their input
\* order; the input list is as it was; sorting the result again by the same
\* order returns it unchanged.
C16_SortIsStablePermutation ==
    [][ (~output.done /\ output'.done) =>
            /\ input' = input
            /\ IsStableSortOf(output'.value, input.items, input.order)
            /\ sortItems(output'.value, input.order) = output'.value ]_vars

\* A list of three records was sorted by text into another sequence, and two
\* records whose texts differ in case only were the second before the first.
C16_Witness ==
    /\ output.done
    /\ input.order = "a-z"
    /\ Len(input.items) = 3
    /\ output.value # input.items
    /\ input.items[1] = Item("comment", <<"A">>, 0, 0)
    /\ input.items[3] = Item("highlight", <<"a">>, 0, 0)
    /\ output.value[1] = Item("comment", <<"A">>, 0, 0)
    /\ output.value[2] = Item("highlight", <<"a">>, 0, 0)

\* C17: when the sort order of a category is none of the four orders, the
\* render has produced its section and the rows of the section are in line
\* ascending, then column ascending order.
C17_UnknownSortOrderShowsLineAscending ==
    viewOpen =>
        \A n \in 1..Len(plan.sections) :
            plan.sections[n].sortOrder \notin SortOrder =>
                plan.sections[n].rows
                = stableSort(plan.sections[n].rows, "line-asc")

\* The content element shows the document that is active now.
ShowsActiveDocument ==
    LET r == renderContent(settings, activeDoc, searchQuery)
    IN  plan = r.plan /\ allItems = r.allItems

\* C19: after document-changed and active-document-changed events a refresh
\* eventually runs; when it has run the open sidebar shows the annotations
\* parsed from the text of the document active at that time; and one refresh
\* serves all the events since the last one, none is left waiting.
C19_RefreshFollowsEvents ==
    /\ (pendingCalls > 0) ~> (lastOp.op = "refresh")
    /\ [](lastOp.op = "refresh" =>
            /\ pendingCalls = 0
            /\ viewOpen => ShowsActiveDocument)

\* One refresh has run for two events, and the sidebar shows the sections of
\* the third document.
C19_Witness ==
    /\ lastOp = Op("refresh", "", "coalesced")
    /\ viewOpen
    /\ activeDoc = Len(Docs)
    /\ Len(plan.sections) = Len(ItemTypes)

\* The selection scrollToItem sets from a record.
SelectionOf(doc, item) ==
    [doc |-> doc, line |-> item.line, from |-> item.ch,
     to |-> item.ch + item.matchLength]

\* C20: a click on a row selects the (line, column, column + matchLength) of
\* a record of the last render in the active editor, and parses and renders
\* nothing, whether or not the document has changed since that render; with no
\* active document it changes nothing.
C20_ClickUsesRenderedCoordinates ==
    [][ lastOp'.op = "click" =>
            /\ UNCHANGED <<pc, data, settings, activeDoc, viewOpen, searchQuery,
                           allItems, plan, pendingCalls>>
            /\ IF activeDoc = 0
               THEN selection' = selection
               ELSE \E n \in 1..Len(plan.sections) :
                        \E m \in 1..Len(plan.sections[n].rows) :
                            selection'
                            = SelectionOf(activeDoc, plan.sections[n].rows[m])
      ]_vars

\* The document was edited after the render and the refresh has not run yet:
\* the click has selected the place of a record of the old text, a line the
\* new text does not have.
C20_Witness ==
    /\ lastOp.op = "click"
    /\ pendingCalls > 0
    /\ activeDoc # 0
    /\ selection.doc = activeDoc
    /\ allItems # ParsedDocs[activeDoc]
    /\ selection.line >= Len(split(Docs[activeDoc]))

====
